---- MODULE Spec2Model ----
(***************************************************************************)
(* Model of the speed-test backend (src/index.ts): the Express middleware  *)
(* chain, the flow-controlled download writer (sendChunk), the upload      *)
(* byte counter and the response objects they act on.                      *)
(*                                                                         *)
(* JavaScript values are modelled as follows.                              *)
(*   number  : a record [nan, val]; NaN is [nan |-> TRUE, val |-> 0]       *)
(*   string  : a sequence of one-character strings, <<"4", "2">>           *)
(*   undefined (absent query parameter or header): the value Undefined     *)
(***************************************************************************)
EXTENDS Integers, Sequences, FiniteSets, TLC

VARIABLES
    route,      \* per session: which handler took the request ("none" before it arrives)
    req,        \* per session: the request as received
    res,        \* per session: the response object (headers, status, transport buffer)
    dl,         \* per session: closure state of the download handler
    ul,         \* per session: closure state of the upload handler
    tickQueue,  \* process-wide process.nextTick queue of scheduled sendChunk callbacks
    now,        \* Date.now()
    hwm,        \* writableHighWaterMark of the response transport
    uncaught,   \* an exception escaped every handler (the process dies)
    server      \* the http.Server returned by app.listen, and the process's exit

vars == <<route, req, res, dl, ul, tickQueue, now, hwm, uncaught, server>>

(***************************************************************************)
(* JavaScript numbers and strings                                          *)
(***************************************************************************)
NaN == [nan |-> TRUE, val |-> 0]

Num(n) == [nan |-> FALSE, val |-> n]

Undefined == <<"undefined">>

DigitChars == <<"0", "1", "2", "3", "4", "5", "6", "7", "8", "9">>

IsDigit(c) == \E i \in 1..10 : DigitChars[i] = c

DigitVal(c) == (CHOOSE i \in 1..10 : DigitChars[i] = c) - 1

IsWhiteSpace(c) == c = " "

RECURSIVE TrimStart(_)
TrimStart(str) ==
    IF str # <<>> /\ IsWhiteSpace(Head(str)) THEN TrimStart(Tail(str)) ELSE str

RECURSIVE DigitPrefix(_)
DigitPrefix(str) ==
    IF str # <<>> /\ IsDigit(Head(str))
    THEN <<Head(str)>> \o DigitPrefix(Tail(str))
    ELSE <<>>

RECURSIVE DigitsValue(_, _)
DigitsValue(digits, acc) ==
    IF digits = <<>> THEN acc
    ELSE DigitsValue(Tail(digits), 10 * acc + DigitVal(Head(digits)))

\* parseInt(str, 10): leading white space skipped, optional sign, then the
\* longest prefix of decimal digits; NaN when that prefix is empty.
ParseInt(str) ==
    LET s0     == TrimStart(str)
        neg    == s0 # <<>> /\ Head(s0) = "-"
        signed == s0 # <<>> /\ Head(s0) \in {"-", "+"}
        s1     == IF signed THEN Tail(s0) ELSE s0
        digits == DigitPrefix(s1)
    IN  IF digits = <<>> THEN NaN
        ELSE Num((IF neg THEN -1 ELSE 1) * DigitsValue(digits, 0))

RECURSIVE NatToString(_)
NatToString(n) ==
    IF n < 10 THEN <<DigitChars[n + 1]>>
    ELSE NatToString(n \div 10) \o <<DigitChars[(n % 10) + 1]>>

\* Number.prototype.toString()
NumberToString(x) ==
    IF x.nan THEN <<"N", "a", "N">>
    ELSE IF x.val < 0 THEN <<"-">> \o NatToString(-x.val)
    ELSE NatToString(x.val)

isNaN(x) == x.nan

\* Math.min / Math.max: NaN if either argument is NaN
MathMin(a, b) == IF a.nan \/ b.nan THEN NaN ELSE IF a.val <= b.val THEN a ELSE b

MathMax(a, b) == IF a.nan \/ b.nan THEN NaN ELSE IF a.val >= b.val THEN a ELSE b

\* a - b, a >= b, a < b, a <= b on numbers: every comparison with NaN is false
Minus(a, b) == IF a.nan \/ b.nan THEN NaN ELSE Num(a.val - b.val)

GreaterEq(a, b) == ~a.nan /\ ~b.nan /\ a.val >= b.val

Less(a, b) == ~a.nan /\ ~b.nan /\ a.val < b.val

LessEq(a, b) == ~a.nan /\ ~b.nan /\ a.val <= b.val

\* truthiness of a string | undefined value: undefined and "" are falsy
Truthy(str) == str # Undefined /\ str # <<>>

(***************************************************************************)
(* Program constants                                                       *)
(***************************************************************************)
MiB == 1024 * 1024

defaultSize == 100 * MiB

minSize == 50 * MiB

maxSize == 200 * MiB

chunkSize == 64 * 1024

(***************************************************************************)
(* Requests                                                                *)
(***************************************************************************)
Sessions == {1, 2}

NoRequest ==
    [method |-> "", path |-> "", size |-> Undefined,
     contentLength |-> Undefined, body |-> "none"]

(***************************************************************************)
(* The response object (express Response over http.ServerResponse)         *)
(***************************************************************************)
NoHeaders ==
    [cacheControl       |-> {},      \* directives of Cache-Control
     pragma             |-> "",
     expires            |-> "",
     contentType        |-> "",
     contentLength      |-> Undefined,
     contentDisposition |-> "",
     transferEncoding   |-> "",
     allowOrigin        |-> FALSE,   \* Access-Control-Allow-Origin set
     allowCredentials   |-> FALSE]

NoBody == [kind |-> "none"]

FreshResponse ==
    [statusCode    |-> 200,
     headers       |-> NoHeaders,
     headersSent   |-> FALSE,
     sentHeaders   |-> NoHeaders,  \* the header block as it went out
     body          |-> NoBody,
     finished      |-> FALSE,      \* end-of-body signal sent
     endCalls      |-> 0,
     destroyed     |-> FALSE,      \* connection closed under the response
     queue         |-> <<>>,       \* lengths of written chunks not yet flushed
     needDrain     |-> FALSE,
     written       |-> 0,          \* bytes handed to the transport with write()
     writeAfterEnd |-> FALSE]

RECURSIVE SumSeq(_)
SumSeq(q) == IF q = <<>> THEN 0 ELSE Head(q) + SumSeq(Tail(q))

\* writableLength of the transport
Buffered(r) == SumSeq(r.queue)

\* the header block leaves with the first byte of the response
FlushHeaders(r) ==
    IF r.headersSent THEN r
    ELSE [r EXCEPT !.headersSent = TRUE, !.sentHeaders = r.headers]

\* res.write(buffer): the result is [res, ok], ok being the return value.
\* A write on a finished or destroyed response is refused and returns false;
\* otherwise the chunk is queued and the result tells whether the queue is
\* still below the high-water mark.
ResWrite(r, len, mark) ==
    IF r.finished
    THEN [res |-> [r EXCEPT !.writeAfterEnd = TRUE], ok |-> FALSE]
    ELSE IF r.destroyed
    THEN [res |-> r, ok |-> FALSE]
    ELSE LET r1 == FlushHeaders(r)
             q  == Append(r1.queue, len)
             ok == SumSeq(q) < mark
         IN  [res |-> [r1 EXCEPT !.queue = q,
                                 !.written = @ + len,
                                 !.needDrain = @ \/ ~ok],
              ok  |-> ok]

\* res.end()
ResEnd(r) ==
    IF r.finished THEN [r EXCEPT !.endCalls = @ + 1]
    ELSE [FlushHeaders(r) EXCEPT !.finished = TRUE, !.endCalls = @ + 1]

\* res.status(code).json(body): sets the JSON content type and the length of
\* the serialized body, then sends and ends the response
ResJson(r, code, body) ==
    LET r1 == [r EXCEPT !.statusCode = code,
                        !.headers.contentType = "application/json",
                        !.headers.contentLength = <<"body-length">>,
                        !.body = body]
    IN  ResEnd(r1)

(***************************************************************************)
(* Middleware registered before the routes                                 *)
(***************************************************************************)
\* app.use(cors({origin, credentials: true})): CORS headers on every request;
\* a preflight (OPTIONS) request is answered by the middleware itself with
\* 204 and an empty body, the rest of the chain is not run.
Cors(r, rq) ==
    LET r1 == [r EXCEPT !.headers.allowOrigin = TRUE,
                        !.headers.allowCredentials = TRUE]
    IN  IF rq.method = "OPTIONS"
        THEN ResEnd([r1 EXCEPT !.statusCode = 204,
                               !.headers.contentLength = <<"0">>])
        ELSE r1

noCache(r) ==
    [r EXCEPT !.headers.cacheControl =
                  {"no-store", "no-cache", "must-revalidate", "private"},
              !.headers.pragma = "no-cache",
              !.headers.expires = "0"]

\* The selective body parser: TRUE when express.json() passes an error to
\* next(), which happens for a JSON body that does not parse; the upload
\* path is never parsed.
JsonParserFails(rq) == rq.path # "/api/upload" /\ rq.body = "badjson"

(***************************************************************************)
(* Download: GET /api/download                                             *)
(***************************************************************************)
NoDownload ==
    [finalSize      |-> Num(0),
     sent           |-> 0,
     isDraining     |-> FALSE,
     drainListeners |-> 0,    \* listeners registered with res.once('drain')
     afterClose     |-> 0]    \* sendChunk steps run after the connection closed

\* FinalSize without the lower bound
FinalSizeNoFloor(sizeParam) ==
    LET sizeBytes == IF Truthy(sizeParam) THEN ParseInt(sizeParam)
                     ELSE Num(defaultSize)
    IN  MathMin(Num(maxSize), sizeBytes)

\* lines 50-56: the size parameter, defaulted and clamped
FinalSize(sizeParam) ==
    LET sizeBytes == IF Truthy(sizeParam) THEN ParseInt(sizeParam)
                     ELSE Num(defaultSize)
    IN  MathMax(Num(minSize), MathMin(Num(maxSize), sizeBytes))

\* lines 58-64
DownloadHeaders(r, finalSize) ==
    [r EXCEPT !.headers.contentType = "application/octet-stream",
              !.headers.contentLength = NumberToString(finalSize),
              !.headers.contentDisposition = "attachment; filename=\"speedtest.dat\"",
              !.headers.transferEncoding = "chunked",
              !.headers.cacheControl = {"no-store", "no-cache", "must-revalidate"},
              !.headers.pragma = "no-cache",
              !.headers.expires = "0"]

\* CurrentChunkSize that always takes a full chunk
CurrentChunkSizeFull(d) == IF d.finalSize.nan THEN NaN ELSE Num(chunkSize)

\* lines 76-77: the size of the next chunk
CurrentChunkSize(d) ==
    LET remaining == Minus(d.finalSize, Num(d.sent))
    IN  MathMin(Num(chunkSize), remaining)

\* AfterWrite that schedules the next step whatever res.write returned
AfterWriteNoBackpressure(w, d) ==
    IF Less(Num(d.sent), d.finalSize)
    THEN [res |-> w.res, dl |-> d, tick |-> TRUE, threw |-> FALSE]
    ELSE [res |-> ResEnd(w.res), dl |-> d, tick |-> FALSE, threw |-> FALSE]

\* AfterWrite that suspends on a rejected write without registering the
\* drain listener
AfterWriteNoListener(w, d) ==
    IF ~w.ok
    THEN [res  |-> w.res, dl |-> [d EXCEPT !.isDraining = TRUE],
          tick |-> FALSE, threw |-> FALSE]
    ELSE IF Less(Num(d.sent), d.finalSize)
    THEN [res |-> w.res, dl |-> d, tick |-> TRUE, threw |-> FALSE]
    ELSE [res |-> ResEnd(w.res), dl |-> d, tick |-> FALSE, threw |-> FALSE]

\* AfterWrite that, on a rejected write, registers the drain listener and
\* schedules the next step as well
AfterWriteBothContinuations(w, d) ==
    IF ~w.ok
    THEN [res  |-> w.res,
          dl   |-> [d EXCEPT !.isDraining = TRUE, !.drainListeners = @ + 1],
          tick |-> TRUE, threw |-> FALSE]
    ELSE IF Less(Num(d.sent), d.finalSize)
    THEN [res |-> w.res, dl |-> d, tick |-> TRUE, threw |-> FALSE]
    ELSE [res |-> ResEnd(w.res), dl |-> d, tick |-> FALSE, threw |-> FALSE]

\* AfterWrite that ends the response after any accepted write, whether or
\* not sent has reached finalSize
AfterWriteEndEarly(w, d) ==
    IF ~w.ok
    THEN [res  |-> w.res,
          dl   |-> [d EXCEPT !.isDraining = TRUE, !.drainListeners = @ + 1],
          tick |-> FALSE, threw |-> FALSE]
    ELSE [res |-> ResEnd(w.res), dl |-> d, tick |-> FALSE, threw |-> FALSE]

\* lines 91-107: what sendChunk does with the result w = [res, ok] of
\* res.write, d being the closure state with sent already advanced
AfterWrite(w, d) ==
    LET canContinue == w.ok
    IN  IF ~canContinue
        THEN [res  |-> w.res,
              dl   |-> [d EXCEPT !.isDraining = TRUE, !.drainListeners = @ + 1],
              tick |-> FALSE, threw |-> FALSE]
        ELSE IF Less(Num(d.sent), d.finalSize)
        THEN [res |-> w.res, dl |-> d, tick |-> TRUE, threw |-> FALSE]
        ELSE [res |-> ResEnd(w.res), dl |-> d, tick |-> FALSE, threw |-> FALSE]

\* One run of sendChunk (lines 70-108) on response r and closure state d.
\* The result is [res, dl, tick, threw]: tick says that the step scheduled
\* itself with process.nextTick, threw that Buffer.allocUnsafe rejected the
\* chunk size (a size that is not a number in range throws).
sendChunk(r, d, mark) ==
    LET d0 == [d EXCEPT !.afterClose = IF r.destroyed THEN @ + 1 ELSE @]
    IN
    IF GreaterEq(Num(d0.sent), d0.finalSize)
    THEN [res |-> ResEnd(r), dl |-> d0, tick |-> FALSE, threw |-> FALSE]
    ELSE
    LET currentChunkSize == CurrentChunkSize(d0)
    IN
    IF currentChunkSize.nan \/ currentChunkSize.val < 0
    THEN [res |-> r, dl |-> d0, tick |-> FALSE, threw |-> TRUE]
    ELSE AfterWrite(ResWrite(r, currentChunkSize.val, mark),
                    [d0 EXCEPT !.sent = @ + currentChunkSize.val])

\* The download handler (lines 48-118): headers, the first sendChunk call,
\* and the catch block that answers 500 when that call throws before any
\* header went out.
DownloadHandler(r, rq, mark) ==
    LET finalSize == FinalSize(rq.size)
        r1 == DownloadHeaders(r, finalSize)
        d1 == [NoDownload EXCEPT !.finalSize = finalSize]
        st == sendChunk(r1, d1, mark)
    IN  IF st.threw
        THEN [res  |-> IF ~st.res.headersSent
                       THEN ResJson(st.res, 500, [kind |-> "error", error |-> "Download failed"])
                       ELSE st.res,
              dl   |-> st.dl, tick |-> FALSE]
        ELSE [res |-> st.res, dl |-> st.dl, tick |-> st.tick]

(***************************************************************************)
(* Upload: POST /api/upload                                                *)
(***************************************************************************)
NoUpload ==
    [startTime     |-> 0,
     sizeBytes     |-> Num(0),
     receivedBytes |-> 0,
     listening     |-> FALSE,   \* data/end/error/close listeners registered
     ended         |-> FALSE,   \* the body stream emitted 'end'
     errored       |-> FALSE,   \* the body stream emitted 'error'
     closed        |-> FALSE,   \* the request emitted 'close'
     observed      |-> 0,       \* bytes the body stream delivered in data events
     endTime       |-> 0]

\* UploadHandler that only requires the header to be present
UploadHandlerNoRangeCheck(r, rq, t) ==
    IF ~Truthy(rq.contentLength)
    THEN [res |-> ResJson(r, 400, [kind |-> "error", error |-> "Content-Length header required"]),
          ul  |-> NoUpload]
    ELSE [res |-> r,
          ul  |-> [NoUpload EXCEPT !.startTime = t,
                                   !.sizeBytes = ParseInt(rq.contentLength),
                                   !.listening = TRUE]]

\* lines 123-177 up to the registration of the listeners
UploadHandler(r, rq, t) ==
    LET startTime     == t
        contentLength == rq.contentLength
        sizeBytes     == ParseInt(contentLength)
    IN  IF ~Truthy(contentLength)
        THEN [res |-> ResJson(r, 400, [kind |-> "error", error |-> "Content-Length header required"]),
              ul  |-> NoUpload]
        ELSE IF isNaN(sizeBytes) \/ LessEq(sizeBytes, Num(0))
        THEN [res |-> ResJson(r, 400, [kind |-> "error", error |-> "Invalid Content-Length"]),
              ul  |-> NoUpload]
        ELSE [res |-> r,
              ul  |-> [NoUpload EXCEPT !.startTime = startTime,
                                       !.sizeBytes = sizeBytes,
                                       !.listening = TRUE]]

\* req.on('data') listener, lines 140-142
OnData(u, len) == [u EXCEPT !.receivedBytes = @ + len]

\* UploadReport that reports the declared length as received
UploadReportDeclared(u, endTime) ==
    [kind      |-> "upload",
     received  |-> u.sizeBytes.val,
     expected  |-> u.sizeBytes.val,
     duration  |-> [num |-> endTime - u.startTime, den |-> 1000],
     timestamp |-> endTime]

\* the measurement report of lines 146-155; duration is a quotient, kept as
\* numerator (milliseconds) and denominator
UploadReport(u, endTime) ==
    [kind      |-> "upload",
     received  |-> u.receivedBytes,
     expected  |-> u.sizeBytes.val,
     duration  |-> [num |-> endTime - u.startTime, den |-> 1000],
     timestamp |-> endTime]

\* OnEnd that reports only a complete transfer
OnEndIfComplete(r, u, t) ==
    IF r.headersSent \/ u.receivedBytes # u.sizeBytes.val THEN r
    ELSE ResJson(r, 200, UploadReport(u, t))

\* req.on('end') listener, lines 144-162: res.json throws when the headers
\* already went out; the catch block then finds headersSent and does nothing
OnEnd(r, u, t) ==
    IF r.headersSent THEN r ELSE ResJson(r, 200, UploadReport(u, t))

\* OnError that sends the 500 without looking at headersSent
OnErrorUnguarded(r) ==
    ResJson(r, 500, [kind |-> "error", error |-> "Upload stream failed"])

\* req.on('error') listener, lines 164-169
OnError(r) ==
    IF ~r.headersSent
    THEN ResJson(r, 500, [kind |-> "error", error |-> "Upload stream failed"])
    ELSE r

(***************************************************************************)
(* The middleware chain and the routes, lines 8-195                        *)
(***************************************************************************)
Handled(name, r) ==
    [route |-> name, res |-> r, dl |-> NoDownload, ul |-> NoUpload, tick |-> FALSE]

Dispatch(rq, t, mark) ==
    LET r0 == Cors(FreshResponse, rq)
        r1 == noCache(r0)
    IN  IF r0.finished THEN Handled("cors", r0)
        ELSE IF JsonParserFails(rq)
        THEN Handled("error",
                     ResJson(r1, 500, [kind |-> "error", error |-> "Internal server error"]))
        ELSE IF rq.method = "GET" /\ rq.path = "/health"
        THEN Handled("health",
                     ResJson(r1, 200, [kind |-> "health", status |-> "ok", timestamp |-> t]))
        ELSE IF rq.method = "GET" /\ rq.path = "/api/ping"
        THEN Handled("ping",
                     ResJson(noCache(r1), 200,
                             [kind |-> "ping", timestamp |-> t, serverTime |-> t]))
        ELSE IF rq.method = "GET" /\ rq.path = "/api/download"
        THEN LET h == DownloadHandler(noCache(r1), rq, mark)
             IN  [route |-> "download", res |-> h.res, dl |-> h.dl,
                  ul |-> NoUpload, tick |-> h.tick]
        ELSE IF rq.method = "POST" /\ rq.path = "/api/upload"
        THEN LET h == UploadHandler(noCache(r1), rq, t)
             IN  [route |-> "upload", res |-> h.res, dl |-> NoDownload,
                  ul |-> h.ul, tick |-> FALSE]
        ELSE Handled("notfound",
                     ResJson(r1, 404, [kind |-> "error", error |-> "Not found"]))

(***************************************************************************)
(* Bounds and input sets                                                   *)
(***************************************************************************)
MaxClock == 3

MaxUploadBytes == 4
\* termination signals delivered to the process
MaxSignals == 2
\* chunks of each download that are followed when two downloads run at once
MaxConcurrentChunks == 5

UploadChunkLens == {1, 2}

\* the session that runs alone in the single-request specifications
Solo == {1}

\* writableHighWaterMark of the transport: the stream default, below one
\* chunk, and a mark of a few chunks
HighWaterMarks == {16 * 1024, 3 * chunkSize + 1}

\* values of the size query parameter
SizeParams ==
    {Undefined, <<>>, <<"0">>, <<"-", "5">>, <<"1", "0">>, <<"a", "b", "c">>,
     <<"1", "2", "a", "b", "c">>, <<" ", "7">>,
     NumberToString(Num(minSize)), NumberToString(Num(minSize + 1)),
     NumberToString(Num(60000000)), NumberToString(Num(maxSize - 1)),
     NumberToString(Num(maxSize)), NumberToString(Num(500000000))}

\* values of the Content-Length request header
ContentLengths ==
    {Undefined, <<>>, <<"0">>, <<"-", "5">>, <<"a", "b", "c">>, <<"N", "a", "N">>,
     <<"3">>, <<"4", "x">>, <<"1", "2">>}

Methods == {"GET", "POST", "OPTIONS"}

Paths == {"/health", "/api/ping", "/api/download", "/api/upload", "/other"}

Bodies == {"none", "json", "badjson"}

DownloadRequests ==
    {[method |-> "GET", path |-> "/api/download", size |-> sz,
      contentLength |-> Undefined, body |-> "none"] : sz \in SizeParams}

UploadRequests ==
    {[method |-> "POST", path |-> "/api/upload", size |-> Undefined,
      contentLength |-> cl, body |-> "json"] : cl \in ContentLengths}

\* a request without a body carries no Content-Length
Requests ==
    {rq \in [method : Methods, path : Paths, size : {Undefined},
             contentLength : {Undefined, <<"3">>}, body : Bodies] :
        rq.body = "none" => rq.contentLength = Undefined}

(***************************************************************************)
(* The server and the process, lines 197-216                               *)
(***************************************************************************)
\* app.listen(PORT), line 197: the server accepts connections; no listener
\* for its 'close' event yet
Listen ==
    [listening      |-> TRUE,
     connections    |-> {},     \* sessions whose connection is open
     closeListeners |-> 0,      \* callbacks registered by server.close(cb)
     signals        |-> 0,      \* termination signals delivered
     exited         |-> FALSE]  \* process.exit(0) ran

\* handlers run while the process lives
Running == ~uncaught /\ ~server.exited

\* a signal handler that stops listening and exits at once
OnSignalExitNow(srv) ==
    [srv EXCEPT !.signals = @ + 1, !.listening = FALSE, !.exited = TRUE]

\* the SIGTERM and SIGINT handlers, lines 202-216: server.close(cb) stops
\* listening and registers cb, which calls process.exit(0), for 'close'
OnSignal(srv) ==
    [srv EXCEPT !.signals = @ + 1, !.listening = FALSE, !.closeListeners = @ + 1]

(***************************************************************************)
(* Initial state                                                           *)
(***************************************************************************)
Init ==
    /\ route = [s \in Sessions |-> "none"]
    /\ req = [s \in Sessions |-> NoRequest]
    /\ res = [s \in Sessions |-> FreshResponse]
    /\ dl = [s \in Sessions |-> NoDownload]
    /\ ul = [s \in Sessions |-> NoUpload]
    /\ tickQueue = <<>>
    /\ now = 0
    /\ hwm \in HighWaterMarks
    /\ uncaught = FALSE
    /\ server = Listen

(***************************************************************************)
(* Actions                                                                 *)
(***************************************************************************)
\* A request arrives on session s and runs through the middleware chain and
\* its route handler.  Requests are I/O events: none is taken while
\* process.nextTick callbacks are pending.
Receive(s, rq) ==
    /\ Running
    /\ server.listening
    /\ route[s] = "none"
    /\ tickQueue = <<>>
    /\ LET h == Dispatch(rq, now, hwm)
       IN  /\ route' = [route EXCEPT ![s] = h.route]
           /\ req' = [req EXCEPT ![s] = rq]
           /\ res' = [res EXCEPT ![s] = h.res]
           /\ dl' = [dl EXCEPT ![s] = h.dl]
           /\ ul' = [ul EXCEPT ![s] = h.ul]
           /\ tickQueue' = IF h.tick THEN Append(tickQueue, s) ELSE tickQueue
    /\ server' = [server EXCEPT !.connections = @ \cup {s}]
    /\ UNCHANGED <<now, hwm, uncaught>>

\* RunTick with sent kept in one variable that every download shares
RunTickSharedSent ==
    /\ Running
    /\ tickQueue # <<>>
    /\ LET s  == Head(tickQueue)
           st == sendChunk(res[s], dl[s], hwm)
       IN  /\ res' = [res EXCEPT ![s] = st.res]
           /\ dl' = [t \in Sessions |->
                        IF t = s THEN st.dl
                        ELSE IF route[t] = "download"
                        THEN [dl[t] EXCEPT !.sent = st.dl.sent]
                        ELSE dl[t]]
           /\ tickQueue' = IF st.tick THEN Append(Tail(tickQueue), s)
                           ELSE Tail(tickQueue)
           /\ uncaught' = st.threw
    /\ UNCHANGED <<route, req, ul, now, hwm, server>>

\* The oldest process.nextTick callback runs: one sendChunk step of the
\* session that scheduled it.  An exception thrown there has no handler.
RunTick ==
    /\ Running
    /\ tickQueue # <<>>
    /\ LET s  == Head(tickQueue)
           st == sendChunk(res[s], dl[s], hwm)
       IN  /\ res' = [res EXCEPT ![s] = st.res]
           /\ dl' = [dl EXCEPT ![s] = st.dl]
           /\ tickQueue' = IF st.tick THEN Append(Tail(tickQueue), s)
                           ELSE Tail(tickQueue)
           /\ uncaught' = st.threw
    /\ UNCHANGED <<route, req, ul, now, hwm, server>>

\* The k listeners registered with res.once('drain') run in turn (lines
\* 94-97): each clears isDraining and calls sendChunk.
RECURSIVE RunDrainListeners(_, _, _, _)
RunDrainListeners(r, d, k, mark) ==
    IF k = 0 THEN [res |-> r, dl |-> d, ticks |-> 0, threw |-> FALSE]
    ELSE LET st == sendChunk(r, [d EXCEPT !.isDraining = FALSE], mark)
         IN  IF st.threw
             THEN [res |-> st.res, dl |-> st.dl, ticks |-> 0, threw |-> TRUE]
             ELSE LET rest == RunDrainListeners(st.res, st.dl, k - 1, mark)
                  IN  [res   |-> rest.res, dl |-> rest.dl,
                       ticks |-> rest.ticks + (IF st.tick THEN 1 ELSE 0),
                       threw |-> rest.threw]

RECURSIVE Repeat(_, _)
Repeat(x, n) == IF n = 0 THEN <<>> ELSE <<x>> \o Repeat(x, n - 1)

\* The transport completes the oldest queued write of session s.  When that
\* empties the queue after a rejected write, 'drain' is emitted and the
\* listeners registered for it run.
FlushChunk(s) ==
    /\ Running
    /\ ~res[s].destroyed
    /\ res[s].queue # <<>>
    /\ LET r1      == [res[s] EXCEPT !.queue = Tail(@)]
           drained == r1.queue = <<>> /\ r1.needDrain
           r2      == [r1 EXCEPT !.needDrain = FALSE]
           k       == dl[s].drainListeners
           out     == RunDrainListeners(r2, [dl[s] EXCEPT !.drainListeners = 0],
                                        k, hwm)
       IN  IF drained
           THEN /\ res' = [res EXCEPT ![s] = out.res]
                /\ dl' = [dl EXCEPT ![s] = out.dl]
                /\ tickQueue' = tickQueue \o Repeat(s, out.ticks)
                /\ uncaught' = out.threw
           ELSE /\ res' = [res EXCEPT ![s] = r1]
                /\ UNCHANGED <<dl, tickQueue, uncaught>>
    /\ UNCHANGED <<route, req, ul, now, hwm, server>>

\* The client of a download closes the connection, or the transport fails:
\* the response is destroyed, queued data is dropped, no drain will follow.
Disconnect(s) ==
    /\ Running
    /\ route[s] = "download"
    /\ ~res[s].finished
    /\ ~res[s].destroyed
    /\ res' = [res EXCEPT ![s].destroyed = TRUE, ![s].queue = <<>>]
    /\ UNCHANGED <<route, req, dl, ul, tickQueue, now, hwm, uncaught, server>>

\* The request body stream of an upload delivers a chunk of len bytes; the
\* data listener, if registered, counts it.
UploadData(s, len) ==
    /\ Running
    /\ tickQueue = <<>>
    /\ route[s] = "upload"
    /\ ~ul[s].ended /\ ~ul[s].errored /\ ~ul[s].closed
    /\ ul[s].observed + len <= MaxUploadBytes
    /\ LET u == IF ul[s].listening THEN OnData(ul[s], len) ELSE ul[s]
       IN  ul' = [ul EXCEPT ![s] = [u EXCEPT !.observed = @ + len]]
    /\ UNCHANGED <<route, req, res, dl, tickQueue, now, hwm, uncaught, server>>

\* The body stream completes: 'end'
UploadEnd(s) ==
    /\ Running
    /\ tickQueue = <<>>
    /\ route[s] = "upload"
    /\ ~ul[s].ended /\ ~ul[s].errored /\ ~ul[s].closed
    /\ ul' = [ul EXCEPT ![s].ended = TRUE, ![s].endTime = now]
    /\ res' = [res EXCEPT ![s] = IF ul[s].listening
                                 THEN OnEnd(res[s], ul[s], now) ELSE @]
    /\ UNCHANGED <<route, req, dl, tickQueue, now, hwm, uncaught, server>>

\* The body stream fails (the client aborted, the connection was reset):
\* 'error'
UploadError(s) ==
    /\ Running
    /\ tickQueue = <<>>
    /\ route[s] = "upload"
    /\ ~ul[s].errored /\ ~ul[s].closed
    /\ ul' = [ul EXCEPT ![s].errored = TRUE]
    /\ res' = [res EXCEPT ![s] = IF ul[s].listening THEN OnError(res[s]) ELSE @]
    /\ UNCHANGED <<route, req, dl, tickQueue, now, hwm, uncaught, server>>

\* The request is closed ('close', lines 172-177): the listener only logs
UploadClose(s) ==
    /\ Running
    /\ tickQueue = <<>>
    /\ route[s] = "upload"
    /\ ~ul[s].closed
    /\ ul' = [ul EXCEPT ![s].closed = TRUE]
    /\ UNCHANGED <<route, req, res, dl, tickQueue, now, hwm, uncaught, server>>

\* Buffer.allocUnsafe (line 80) fails in the first sendChunk call of a
\* download (line 111): the catch block of the handler answers 500.
ReceiveFault(s, rq) ==
    /\ Running
    /\ server.listening
    /\ route[s] = "none"
    /\ tickQueue = <<>>
    /\ rq \in DownloadRequests
    /\ LET finalSize == FinalSize(rq.size)
           r1 == DownloadHeaders(noCache(Cors(FreshResponse, rq)), finalSize)
       IN  /\ route' = [route EXCEPT ![s] = "download"]
           /\ req' = [req EXCEPT ![s] = rq]
           /\ res' = [res EXCEPT ![s] =
                        ResJson(r1, 500, [kind |-> "error", error |-> "Download failed"])]
           /\ dl' = [dl EXCEPT ![s] = [NoDownload EXCEPT !.finalSize = finalSize]]
    /\ server' = [server EXCEPT !.connections = @ \cup {s}]
    /\ UNCHANGED <<ul, tickQueue, now, hwm, uncaught>>

\* Buffer.allocUnsafe fails in a sendChunk that process.nextTick runs (line
\* 103): the call is outside the try block of the handler, which returned.
RunTickFault ==
    /\ Running
    /\ tickQueue # <<>>
    /\ Less(Num(dl[Head(tickQueue)].sent), dl[Head(tickQueue)].finalSize)
    /\ tickQueue' = Tail(tickQueue)
    /\ uncaught' = TRUE
    /\ UNCHANGED <<route, req, res, dl, ul, now, hwm, server>>

\* Buffer.allocUnsafe fails in the sendChunk that the drain listener calls
\* (lines 94-97)
FlushChunkFault(s) ==
    /\ Running
    /\ ~res[s].destroyed
    /\ Len(res[s].queue) = 1 /\ res[s].needDrain
    /\ dl[s].drainListeners > 0
    /\ Less(Num(dl[s].sent), dl[s].finalSize)
    /\ res' = [res EXCEPT ![s].queue = <<>>, ![s].needDrain = FALSE]
    /\ dl' = [dl EXCEPT ![s].isDraining = FALSE, ![s].drainListeners = @ - 1]
    /\ uncaught' = TRUE
    /\ UNCHANGED <<route, req, ul, tickQueue, now, hwm, server>>

\* the response of session s needs its connection no longer: it is complete
\* and flushed, or the peer is gone
ResponseOver(s) ==
    \/ res[s].destroyed
    \/ res[s].finished /\ res[s].queue = <<>>
    \/ route[s] = "upload" /\ (ul[s].closed \/ ul[s].errored)

\* The connection of session s ends once its response is over
ConnectionEnd(s) ==
    /\ Running
    /\ s \in server.connections
    /\ ResponseOver(s)
    /\ server' = [server EXCEPT !.connections = @ \ {s}]
    /\ UNCHANGED <<route, req, res, dl, ul, tickQueue, now, hwm, uncaught>>

\* SIGTERM or SIGINT is delivered to the process
Signal(sig) ==
    /\ Running
    /\ sig \in {"SIGTERM", "SIGINT"}
    /\ server.signals < MaxSignals
    /\ server' = OnSignal(server)
    /\ UNCHANGED <<route, req, res, dl, ul, tickQueue, now, hwm, uncaught>>

\* The server emits 'close': it listens no more and its last connection has
\* ended.  The callbacks given to server.close run: process.exit(0).
EmitClose ==
    /\ Running
    /\ ~server.listening
    /\ server.connections = {}
    /\ server.closeListeners > 0
    /\ server' = [server EXCEPT !.exited = TRUE]
    /\ UNCHANGED <<route, req, res, dl, ul, tickQueue, now, hwm, uncaught>>

\* Time passes
ClockTick ==
    /\ Running
    /\ now < MaxClock
    /\ now' = now + 1
    /\ UNCHANGED <<route, req, res, dl, ul, tickQueue, hwm, uncaught, server>>

(***************************************************************************)
(* Specifications                                                          *)
(***************************************************************************)
\* The server with one request of any kind
Next ==
    \/ \E s \in Solo, rq \in Requests : Receive(s, rq)
    \/ RunTick
    \/ \E s \in Solo : FlushChunk(s)
    \/ \E s \in Solo : Disconnect(s)
    \/ \E s \in Solo, len \in UploadChunkLens : UploadData(s, len)
    \/ \E s \in Solo : UploadEnd(s)
    \/ \E s \in Solo : UploadError(s)
    \/ \E s \in Solo : UploadClose(s)
    \/ ClockTick

Spec == Init /\ [][Next]_vars

\* One download session, over the values of the size parameter
NextDownload ==
    \/ \E s \in Solo, rq \in DownloadRequests : Receive(s, rq)
    \/ RunTick
    \/ \E s \in Solo : FlushChunk(s)
    \/ \E s \in Solo : Disconnect(s)

SpecDownload == Init /\ [][NextDownload]_vars

\* One download session with the scheduling the runtime guarantees: a
\* scheduled callback runs, and a transport that is not closed completes its
\* queued writes.  The size parameters: one that does not parse, and one whose
\* last chunk is shorter than the others.
LiveRequests ==
    {rq \in DownloadRequests :
        rq.size \in {<<"a", "b", "c">>, NumberToString(Num(minSize + 1))}}

NextLive ==
    \/ \E s \in Solo, rq \in LiveRequests : Receive(s, rq)
    \/ RunTick
    \/ \E s \in Solo : FlushChunk(s)
    \/ \E s \in Solo : Disconnect(s)

FairDownload ==
    /\ Init /\ [][NextLive]_vars
    /\ WF_vars(RunTick)
    /\ \A s \in Solo : WF_vars(FlushChunk(s))

\* One upload session, over the values of the Content-Length header
NextUpload ==
    \/ \E s \in Solo, rq \in UploadRequests : Receive(s, rq)
    \/ \E s \in Solo, len \in UploadChunkLens : UploadData(s, len)
    \/ \E s \in Solo : UploadEnd(s)
    \/ \E s \in Solo : UploadError(s)
    \/ \E s \in Solo : UploadClose(s)
    \/ ClockTick

SpecUpload == Init /\ [][NextUpload]_vars

\* One download session in which Buffer.allocUnsafe may fail
NextFault ==
    \/ \E s \in Solo, rq \in LiveRequests : Receive(s, rq)
    \/ \E s \in Solo, rq \in LiveRequests : ReceiveFault(s, rq)
    \/ RunTick
    \/ RunTickFault
    \/ \E s \in Solo : FlushChunk(s)
    \/ \E s \in Solo : FlushChunkFault(s)
    \/ \E s \in Solo : Disconnect(s)

SpecFault == Init /\ [][NextFault]_vars

\* One request, and the termination signals
ShutdownRequests ==
    {rq \in DownloadRequests : rq.size = NumberToString(Num(minSize + 1))}
        \cup {rq \in UploadRequests : rq.contentLength = <<"3">>}
        \cup {rq \in Requests : rq.method = "GET" /\ rq.path = "/health" /\ rq.body = "none"}

NextShutdown ==
    \/ \E s \in Solo, rq \in ShutdownRequests : Receive(s, rq)
    \/ RunTick
    \/ \E s \in Solo : FlushChunk(s)
    \/ \E s \in Solo : Disconnect(s)
    \/ \E s \in Solo, len \in UploadChunkLens : UploadData(s, len)
    \/ \E s \in Solo : UploadEnd(s)
    \/ \E s \in Solo : UploadError(s)
    \/ \E s \in Solo : UploadClose(s)
    \/ \E s \in Solo : ConnectionEnd(s)
    \/ \E sig \in {"SIGTERM", "SIGINT"} : Signal(sig)
    \/ EmitClose

SpecShutdown == Init /\ [][NextShutdown]_vars

\* Two sessions at once: a download on session 1, a download or an upload on
\* session 2.  Two downloads are followed for their first chunks.
ConcurrentRequests(s) ==
    {rq \in DownloadRequests : rq.size = NumberToString(Num(minSize + 1))}
        \cup (IF s = 1 THEN {}
              ELSE {rq \in UploadRequests : rq.contentLength = <<"3">>})

Prefix ==
    (route[1] = "download" /\ route[2] = "download") =>
        \A s \in Sessions : dl[s].sent <= MaxConcurrentChunks * chunkSize

NextConcurrent ==
    \/ \E s \in Sessions : \E rq \in ConcurrentRequests(s) : Receive(s, rq) /\ Prefix'
    \/ RunTick /\ Prefix'
    \/ \E s \in Sessions : FlushChunk(s) /\ Prefix'
    \/ \E s \in Sessions : Disconnect(s)
    \/ \E s \in Sessions, len \in UploadChunkLens : UploadData(s, len)
    \/ \E s \in Sessions : UploadEnd(s)
    \/ \E s \in Sessions : UploadError(s)
    \/ \E s \in Sessions : UploadClose(s)

SpecConcurrent == Init /\ [][NextConcurrent]_vars

(***************************************************************************)
(* Properties of the download                                              *)
(***************************************************************************)
InTickQueue(s) == \E i \in 1..Len(tickQueue) : tickQueue[i] = s

\* the response of session s is the binary stream of a download (not a JSON
\* answer of the download route)
Streams(s) == route[s] = "download" /\ res[s].body.kind = "none"

\* C1: in a download that is not interrupted, the bytes handed to the
\* transport never exceed targetBytes, and when the end-of-body signal is
\* sent they equal targetBytes, the value declared in Content-Length.
C1_ExactByteCount ==
    \A s \in Sessions :
        (Streams(s) /\ ~res[s].destroyed) =>
            /\ res[s].written > 0 => LessEq(Num(res[s].written), dl[s].finalSize)
            /\ res[s].finished =>
                  /\ Num(res[s].written) = dl[s].finalSize
                  /\ res[s].sentHeaders.contentLength
                        = NatToString(res[s].written)

C1_Witness ==
    /\ Streams(1) /\ ~res[1].destroyed /\ res[1].finished
    /\ res[1].written = minSize + 1

\* the integers whose decimal form is among the size parameters
SizeInts == {0, -5, 10, minSize, minSize + 1, 60000000, maxSize - 1, maxSize, 500000000}

Clamp(n) == IF n < minSize THEN minSize ELSE IF n > maxSize THEN maxSize ELSE n

\* C2: targetBytes is the clamp of the requested size to [50 MiB, 200 MiB]
\* for every integer size, and 100 MiB when the parameter is absent or empty.
C2_TargetIsClamp ==
    \A s \in Sessions :
        route[s] = "download" =>
            /\ req[s].size \in {Undefined, <<>>} => dl[s].finalSize = Num(100 * MiB)
            /\ \A n \in SizeInts :
                  req[s].size = NumberToString(Num(n)) => dl[s].finalSize = Num(Clamp(n))

C2_Witness ==
    /\ route[1] = "download" /\ req[1].size = <<"1", "0">>
    /\ dl[1].finalSize = Num(50 * MiB) /\ res[1].finished /\ res[1].written = 50 * MiB

\* C3: whatever the size parameter, the download is served with an integer
\* targetBytes within [50 MiB, 200 MiB] and streams instead of failing.
C3_AlwaysServedInRange ==
    \A s \in Sessions :
        route[s] = "download" =>
            /\ ~dl[s].finalSize.nan
            /\ dl[s].finalSize.val >= minSize /\ dl[s].finalSize.val <= maxSize
            /\ res[s].statusCode = 200

\* C4: after a disconnect at most one sendChunk step runs, the one that was
\* already scheduled, and it leaves no continuation behind: no chunk is
\* generated and no write attempted after it.
C4_StopsAfterDisconnect ==
    \A s \in Sessions :
        /\ dl[s].afterClose <= 1
        /\ (res[s].destroyed /\ dl[s].afterClose = 1) => ~InTickQueue(s)
        /\ res[s].destroyed => res[s].queue = <<>>

C4_Witness ==
    /\ res[1].destroyed /\ dl[1].afterClose = 1
    /\ Less(Num(dl[1].sent), dl[1].finalSize)

\* C5: the data written and not yet flushed stays below the high-water mark
\* plus one chunk, whatever targetBytes is, and a suspended writer has no
\* step scheduled.
C5_BoundedInFlight ==
    \A s \in Sessions :
        /\ Buffered(res[s]) < hwm + chunkSize
        /\ Len(res[s].queue) <= (hwm \div chunkSize) + 1
        /\ dl[s].isDraining => ~InTickQueue(s)

C5_Witness ==
    /\ Streams(1) /\ dl[1].isDraining /\ Len(res[1].queue) = 4
    /\ Buffered(res[1]) >= hwm

\* a download that is neither finished nor disconnected and has bytes left
\* to send
Unfinished(s) ==
    /\ Streams(s) /\ ~res[s].finished /\ ~res[s].destroyed
    /\ Less(Num(dl[s].sent), dl[s].finalSize)

\* a continuation of the download is pending: a scheduled sendChunk, or a
\* drain listener on a transport that still has the rejected write to flush
Pending(s) ==
    \/ InTickQueue(s)
    \/ dl[s].drainListeners > 0 /\ res[s].needDrain /\ res[s].queue # <<>>

\* C6: a download whose client stays connected and whose transport drains
\* after every rejected write eventually sends the end-of-body signal, and it
\* is never left with bytes to send and no pending continuation.
C6_EventuallyEnds ==
    /\ [](\A s \in Sessions : Unfinished(s) => Pending(s))
    /\ \A s \in Solo :
          (route[s] = "download") ~> (res[s].finished \/ res[s].destroyed)

C6_Witness ==
    /\ Streams(1) /\ res[1].finished /\ ~res[1].destroyed
    /\ res[1].written = minSize + 1 /\ hwm < chunkSize

(***************************************************************************)
(* Properties of the upload                                                *)
(***************************************************************************)
\* the Content-Length header is absent or empty, has no leading integer
\* (parseInt yields NaN), or its value is zero or negative
Unacceptable(h) ==
    \/ h = Undefined \/ h = <<>>
    \/ isNaN(ParseInt(h))
    \/ ParseInt(h).val <= 0

LengthInts == {3, 12}

\* C8: when the body of a validated upload completes, the report carries
\* received = the sum of the lengths of the chunks observed, expected = the
\* declared Content-Length and duration = (endTime - startTime)/1000 >= 0;
\* N bytes sent with Content-Length N give received = N = expected.
C8_ReportOnCompletion ==
    \A s \in Sessions :
        (route[s] = "upload" /\ ul[s].listening /\ ul[s].ended) =>
            LET b == res[s].body
            IN  /\ res[s].statusCode = 200 /\ b.kind = "upload"
                /\ b.received = ul[s].observed
                /\ \A n \in LengthInts :
                      req[s].contentLength = NatToString(n) =>
                          /\ b.expected = n
                          /\ ul[s].observed = n => (b.received = n /\ b.expected = n)
                /\ b.duration = [num |-> ul[s].endTime - ul[s].startTime, den |-> 1000]
                /\ b.duration.num >= 0
                /\ b.timestamp = ul[s].endTime

C8_Witness ==
    /\ route[1] = "upload" /\ ul[1].listening /\ ul[1].ended
    /\ req[1].contentLength = <<"3">> /\ ul[1].observed = 3
    /\ res[1].body.kind = "upload" /\ res[1].body.received = 3
    /\ res[1].body.duration.num > 0

\* an upload is over: its body completed or failed, or the request closed
UploadOver(s) ==
    route[s] = "upload" /\ ul[s].listening
        /\ (ul[s].ended \/ ul[s].errored \/ ul[s].closed)

\* C9: when an upload ends with receivedBytes different from expectedBytes,
\* a client abort after some bytes included, the server reports received and
\* expected as two separate values.  Stated for the uploads that received
\* some bytes, the case the claim names.
C9_PartialTransferReported ==
    \A s \in Sessions :
        (UploadOver(s) /\ ul[s].receivedBytes > 0
            /\ ul[s].receivedBytes # ul[s].sizeBytes.val) =>
            /\ res[s].body.kind = "upload"
            /\ res[s].body.received = ul[s].receivedBytes
            /\ res[s].body.expected = ul[s].sizeBytes.val

\* C9 as amended: the report with the two values is sent when the body
\* stream completes, also when they differ; an upload that the client aborts
\* before completion (error or close without end) gets no report.
C9_ReportOnlyOnCompletion ==
    \A s \in Sessions :
        (route[s] = "upload" /\ ul[s].listening) =>
            /\ ul[s].ended =>
                  /\ res[s].body.kind = "upload"
                  /\ res[s].body.received = ul[s].receivedBytes
                  /\ res[s].body.expected = ul[s].sizeBytes.val
            /\ ~ul[s].ended => res[s].body.kind # "upload"

C9_Witness ==
    /\ route[1] = "upload" /\ ul[1].listening /\ ul[1].ended
    /\ ul[1].receivedBytes = 2 /\ ul[1].sizeBytes = Num(3)
    /\ res[1].body.kind = "upload"
    /\ res[1].body.received = 2 /\ res[1].body.expected = 3

(***************************************************************************)
(* Properties of the request envelope                                      *)
(***************************************************************************)
\* C10: every response the server sends carries Cache-Control with
\* no-store, no-cache and must-revalidate, Pragma: no-cache and Expires: 0.
C10_CacheHeadersOnEveryResponse ==
    \A s \in Sessions :
        res[s].headersSent =>
            /\ {"no-store", "no-cache", "must-revalidate"}
                  \subseteq res[s].sentHeaders.cacheControl
            /\ res[s].sentHeaders.pragma = "no-cache"
            /\ res[s].sentHeaders.expires = "0"

\* the method and path of the request match none of the four routes
Unrouted(rq) ==
    /\ rq.method # ""
    /\ ~(rq.method = "GET" /\ rq.path \in {"/health", "/api/ping", "/api/download"})
    /\ ~(rq.method = "POST" /\ rq.path = "/api/upload")

\* C11: a request that matches no route is answered 404 {error: "Not found"}
\* whatever its body and headers; the middleware before the routes never
\* answers it with another status.  Stated for the requests that are no CORS
\* preflight (a preflight is answered 204 by the cors middleware).
C11_UnroutedGets404 ==
    \A s \in Sessions :
        (route[s] # "none" /\ Unrouted(req[s]) /\ req[s].method # "OPTIONS") =>
            /\ res[s].statusCode = 404
            /\ res[s].body = [kind |-> "error", error |-> "Not found"]

(***************************************************************************)
(* Properties of the writer's steps                                        *)
(***************************************************************************)
\* the number of bytes the next chunk must have
NextChunk(s) ==
    IF dl'[s].finalSize.val - dl[s].sent < chunkSize
    THEN dl'[s].finalSize.val - dl[s].sent ELSE chunkSize

\* the transport of session s is about to signal drain: it is connected, it
\* rejected a write, and one queued write is left to flush
DrainDue(s) ==
    ~res[s].destroyed /\ res[s].needDrain /\ Len(res[s].queue) = 1

\* C14: after a rejected write the writer is suspended (isDraining): sent
\* does not change and nothing is written until the transport's drain
\* signal, the writer resumes only in reaction to that signal, and one
\* listener is registered per rejected write.
C14_SuspendedUntilDrain ==
    /\ [](\A s \in Sessions :
            /\ dl[s].isDraining <=> dl[s].drainListeners = 1
            /\ dl[s].drainListeners <= 1
            /\ dl[s].isDraining => ~InTickQueue(s))
    /\ [][\A s \in Sessions :
            dl[s].isDraining =>
                \/ /\ DrainDue(s)
                   /\ tickQueue' = tickQueue \/ tickQueue' = Append(tickQueue, s)
                   /\ dl'[s].sent - dl[s].sent \in {0, NextChunk(s)}
                \/ /\ dl'[s] = dl[s]
                   /\ res'[s].written = res[s].written
                   /\ Len(res'[s].queue) <= Len(res[s].queue)]_vars

C14_Witness ==
    /\ Streams(1) /\ dl[1].isDraining /\ dl[1].drainListeners = 1
    /\ Len(res[1].queue) = 3 /\ ~res[1].destroyed
    /\ dl[1].sent > 10 * chunkSize

\* C15: 0 <= sentBytes <= targetBytes in every state of a download; a step
\* that writes adds min(chunkSize, targetBytes - sentBytes) to sentBytes,
\* which is more than 0 and at most chunkSize; every chunk but the last has
\* chunkSize bytes; sentBytes never decreases.
C15_SentAdvancesByChunk ==
    /\ [](\A s \in Sessions :
            Streams(s) =>
                /\ 0 <= dl[s].sent /\ LessEq(Num(dl[s].sent), dl[s].finalSize)
                /\ dl[s].sent % chunkSize = 0 \/ Num(dl[s].sent) = dl[s].finalSize
                /\ \A i \in 1..Len(res[s].queue) :
                      res[s].queue[i] > 0 /\ res[s].queue[i] <= chunkSize)
    /\ [][\A s \in Sessions :
            (Streams(s)' /\ dl'[s].sent # dl[s].sent) =>
                /\ dl'[s].sent - dl[s].sent = NextChunk(s)
                /\ NextChunk(s) > 0 /\ NextChunk(s) <= chunkSize
                /\ Less(Num(dl'[s].sent), dl'[s].finalSize)
                      => dl'[s].sent - dl[s].sent = chunkSize
                /\ ~res[s].destroyed
                      => res'[s].written - res[s].written = NextChunk(s)]_vars

C15_Witness ==
    /\ Streams(1) /\ dl[1].finalSize = Num(minSize + 1)
    /\ dl[1].sent = minSize + 1 /\ res[1].written = minSize + 1

\* the continuations of session s that are pending: scheduled sendChunk
\* callbacks and registered drain listeners
Continuations(s) ==
    Cardinality({i \in 1..Len(tickQueue) : tickQueue[i] = s}) + dl[s].drainListeners

\* C17: a download has at most one pending continuation at any time, a
\* scheduled sendChunk or a drain listener, never both and never two of a
\* kind.
C17_OneContinuation ==
    \A s \in Sessions : Continuations(s) <= 1

C17_Witness ==
    /\ Streams(1) /\ InTickQueue(1) /\ dl[1].drainListeners = 0
    /\ Len(res[1].queue) = 2 /\ dl[1].sent > 10 * chunkSize

\* C18: res.end() is called at most once, only with sent = finalSize, and no
\* chunk is written after it, on both completion paths.
C18_EndOnceAtTarget ==
    /\ [](\A s \in Sessions :
            Streams(s) =>
                /\ res[s].endCalls <= 1
                /\ res[s].finished <=> res[s].endCalls = 1
                /\ res[s].finished => Num(dl[s].sent) = dl[s].finalSize
                /\ ~res[s].writeAfterEnd)
    /\ [][\A s \in Sessions :
            (Streams(s) /\ res[s].finished) =>
                res'[s].written = res[s].written /\ dl'[s] = dl[s]]_vars

\* the end issued by the step that the drain following a rejected final
\* chunk starts
C18_Witness ==
    /\ Streams(1) /\ res[1].finished /\ res[1].endCalls = 1
    /\ hwm < chunkSize /\ dl[1].finalSize = Num(minSize)
    /\ res[1].written = minSize /\ ~dl[1].isDraining

(***************************************************************************)
(* Properties of the upload's responses                                    *)
(***************************************************************************)
\* C19: an upload that passed validation sends at most one response under
\* every ordering of data, end, error and close: end yields the report, an
\* error before completion yields the 500, a response once sent is never
\* changed or sent again by a later event, and close alone sends nothing.
C19_AtMostOneResponse ==
    /\ [](\A s \in Sessions :
            (route[s] = "upload" /\ ul[s].listening) =>
                /\ res[s].endCalls <= 1
                /\ res[s].headersSent <=> res[s].endCalls = 1
                /\ ul[s].ended =>
                      res[s].statusCode = 200 /\ res[s].body.kind = "upload"
                /\ (ul[s].errored /\ ~ul[s].ended) =>
                      /\ res[s].statusCode = 500
                      /\ res[s].body = [kind |-> "error", error |-> "Upload stream failed"]
                /\ (~ul[s].ended /\ ~ul[s].errored) =>
                      ~res[s].headersSent /\ res[s].body = NoBody)
    /\ [][\A s \in Sessions :
            (route[s] = "upload" /\ res[s].headersSent) => res'[s] = res[s]]_vars

\* the report was sent on end; the error and the close that followed left it
\* alone
C19_Witness ==
    /\ route[1] = "upload" /\ ul[1].listening
    /\ ul[1].ended /\ ul[1].errored /\ ul[1].closed /\ ul[1].receivedBytes = 3
    /\ res[1].endCalls = 1 /\ res[1].statusCode = 200

(***************************************************************************)
(* Properties of the process                                               *)
(***************************************************************************)
\* C12: a fault thrown at any step of a session is caught at the endpoint
\* boundary or by the error middleware: no exception escapes every handler.
C12_NoUncaughtException == ~uncaught

\* C13: after SIGTERM or SIGINT, once or repeated, the server accepts no new
\* connection and never listens again, and the process exits only when the
\* response of every session is over; it never exits under a session that is
\* streaming or receiving.
C13_GracefulShutdown ==
    /\ [](server.exited =>
            /\ ~server.listening
            /\ \A s \in Sessions : route[s] # "none" => ResponseOver(s))
    /\ [](server.signals > 0 => ~server.listening)
    /\ [][~server.listening =>
            \A s \in Sessions : route[s] = "none" => route'[s] = "none"]_vars

\* the exit that follows a download completed after both signals arrived
C13_Witness ==
    /\ server.exited /\ server.signals = 2
    /\ route[1] = "download" /\ res[1].finished
    /\ res[1].written = minSize + 1

(***************************************************************************)
(* Properties of concurrent sessions                                       *)
(***************************************************************************)
\* the upload of session t waits for the next chunk of its body
UploadWaiting(t) ==
    /\ route[t] = "upload" /\ ul[t].listening
    /\ ~ul[t].ended /\ ~ul[t].errored /\ ~ul[t].closed
    /\ ul[t].observed + 1 <= MaxUploadBytes

\* C16: a download whose write was accepted yields before its next chunk, so
\* that the pending I/O events of every other active session can run: while
\* session s has its next sendChunk scheduled, the data event of a session
\* that waits for its body can be delivered.
C16_OthersGetAChance ==
    \A s, t \in Sessions :
        (s # t /\ Streams(s) /\ InTickQueue(s) /\ UploadWaiting(t)) =>
            ENABLED UploadData(t, 1)

\* the state of session s: what its handler's closure and its response hold
Session(s) == <<route[s], req[s], res[s], dl[s], ul[s]>>

\* C20: a step changes the state of one session at most, so the counters and
\* flags of every other session stay as they are, and the bytes each session
\* counts are its own: a connected download has written what it sent, and
\* finalSize at its end; an upload reports the bytes its own stream delivered.
C20_SessionsIsolated ==
    /\ [][Cardinality({s \in Sessions : Session(s)' # Session(s)}) <= 1]_vars
    /\ [](\A s \in Sessions :
            /\ (Streams(s) /\ ~res[s].destroyed) =>
                  /\ res[s].written = dl[s].sent
                  /\ res[s].finished => Num(res[s].written) = dl[s].finalSize
            /\ (route[s] = "upload" /\ ul[s].listening) =>
                  /\ ul[s].receivedBytes = ul[s].observed
                  /\ ul[s].ended => res[s].body.received = ul[s].observed)

C20_Witness ==
    /\ Streams(1) /\ res[1].finished /\ res[1].written = minSize + 1
    /\ route[2] = "upload" /\ ul[2].ended /\ res[2].body.kind = "upload"
    /\ res[2].body.received = 2

====
